---- MODULE Spec2Model ----
(***************************************************************************)
(* Model of the request-dispatch pipeline of ChatbotBase                   *)
(* (src/ChatbotBase.ts, class VoiceAssistant, second and most complete     *)
(* variant, lines 663-800).                                                *)
(*                                                                         *)
(* One dispatcher instance handles NumRequests requests.  A call of        *)
(* handle() runs its promise executor synchronously (action Handle); the   *)
(* callbacks it registers run later, one per action: the Promise.all       *)
(* callbacks of the adapters' branches (action Join) and the completion    *)
(* handlers attached to the returned promise (action Complete).  Callbacks *)
(* of different requests interleave freely, as on the event loop.          *)
(***************************************************************************)
EXTENDS Integers, Sequences, FiniteSets, TLC

(* ----------------------------- bounds ---------------------------------- *)
NumPlatforms == 2
NumTrackers == 2
NumRequests == 2

Platforms == 1..NumPlatforms
Trackers == 1..NumTrackers
Requests == 1..NumRequests

(* selectedPlatform: VoicePlatform | null = null *)
NoPlatform == 0

(* ------------------------- the environment ----------------------------- *)
(* What an adapter's verify() returns: the boolean true (also the default  *)
(* implementation), the boolean false, or a promise that resolves to true, *)
(* resolves to false, or rejects.                                          *)
VerifyKinds == {"true", "false", "ptrue", "pfalse", "preject"}
(* What createReply() does: returns an Output, throws, or returns a        *)
(* promise that resolves to an Output or rejects.                          *)
ReplyKinds == {"output", "throw", "poutput", "preject"}
(* What a tracker does when called: returns a promise that resolves,       *)
(* returns a promise that rejects, returns a promise that never completes, *)
(* or throws in trackInput / trackOutput.                                  *)
TrackerModes == {"ok", "rejects", "never", "inThrows", "outThrows"}

VARIABLES
    selectedPlatform,   \* VoiceAssistant.selectedPlatform (instance field)
    language,           \* VoiceAssistant.language (instance field)
    verifyImpl,         \* per configured adapter: what its verify returns
    replyImpl,          \* what the assistant's createReply does
    trackerMode,        \* per configured tracker: how it behaves
    pc,                 \* per request: "idle", "handled", "completed"
    body,               \* per request: the request body
    branch,             \* per request and adapter: the adapter's branch
    promise,            \* per request: the promise returned by handle
    trace               \* per request: the calls made, in order

(* The localized reply-composition engine, exercised on its own. *)
VARIABLES
    variant,            \* which source of the engine: "ts" (ChatbotBase.ts) or "js" (compiled)
    translations,       \* MapTranslator.translations: language -> key -> value
    reply,              \* the DefaultReply under composition
    lastCall            \* the latest call made on the engine and what it returned

(* The assistant's intent handlers, loaded by its constructor. *)
VARIABLES
    intentHandlers      \* VoiceAssistant.intentHandlers, in list order

config == <<verifyImpl, replyImpl, trackerMode, intentHandlers>>
dispatch == <<selectedPlatform, language, verifyImpl, replyImpl, trackerMode,
              pc, body, branch, promise, trace, intentHandlers>>
composer == <<variant, translations, reply, lastCall>>
vars == <<selectedPlatform, language, verifyImpl, replyImpl, trackerMode,
          pc, body, branch, promise, trace, variant, translations, reply, lastCall,
          intentHandlers>>

(* The language tag of the r-th request, as a string of characters. *)
LanguageTag(r) == IF r % 2 = 1 THEN <<"e", "n", "-", "U", "S">> ELSE <<"d", "e">>

(* A request body: the adapters whose isSupported accepts it, and the      *)
(* language tag an adapter parses out of it.                               *)
Bodies(r) == [language : {LanguageTag(r)}, supported : SUBSET Platforms]
(* Every record constructor of this module lists its fields in one fixed   *)
(* order, the order in which TLC keeps them, so that a record is built     *)
(* normalised and no worker ever reorders a value another worker reads.    *)
NoBody == [language |-> <<>>, supported |-> {}]

(* VoicePlatform.isSupported(json) *)
isSupported(p, json) == p \in json.supported

(* String.prototype.substr(0, n) *)
substr0(s, n) == SubSeq(s, 1, IF Len(s) < n THEN Len(s) ELSE n)

(* VoicePlatform.parse(json): the Input of request r as parsed by adapter p *)
parse(p, r, json) ==
    [language |-> json.language, id |-> <<r>>, userId |-> <<"user", r>>,
     sessionId |-> <<"session", r>>, platform |-> p,
     intent |-> "LaunchRequest", message |-> "raw",
     context |-> <<"context", r>>]

(* A Reply: owning-platform tag, kind tag, and what render() returns. *)
Reply(platform, type, rendered) == [platform |-> platform, type |-> type, render |-> rendered]

(* new DefaultReply(input, translations): the Output derived from an Input *)
(* by the constructor, which passes on the Input's id, user, session,      *)
(* platform, language, intent, message and context; the field initialisers *)
(* of Output leave it without replies, suggestions and retention message   *)
(* and with expectAnswer false.                                            *)
DefaultReply(input) ==
    [language |-> input.language, id |-> input.id, userId |-> input.userId,
     sessionId |-> input.sessionId, platform |-> input.platform,
     intent |-> input.intent, message |-> input.message,
     context |-> input.context, replies |-> <<>>, suggestions |-> <<>>,
     retentionMessage |-> "undefined", expectAnswer |-> FALSE]

(* Input.reply() of the first variant: new Output(this.id + '.reply', ...,  *)
(* "", this.context)                                                       *)
Input_reply(input) ==
    [language |-> input.language, id |-> input.id \o <<".reply">>,
     userId |-> input.userId, sessionId |-> input.sessionId,
     platform |-> input.platform, intent |-> input.intent, message |-> "",
     context |-> input.context, replies |-> <<>>, suggestions |-> <<>>,
     retentionMessage |-> "undefined", expectAnswer |-> FALSE]

(* createReply(input): the Output the reply callback composes for an       *)
(* Input.  For the Inputs of the odd adapters it holds two generic text    *)
(* replies, a generic voice reply between them and a text reply owned by   *)
(* one platform after them; for the others it holds no generic text reply. *)
createReply(input) ==
    [DefaultReply(input) EXCEPT !.replies =
        IF input.platform % 2 = 1
        THEN <<Reply("*", "text", "Hi"), Reply("*", "ssml", "<speak>Hi</speak>"),
               Reply("*", "text", "Bye"), Reply("Alexa", "text", "Card")>>
        ELSE <<Reply("Alexa", "text", "Card"), Reply("*", "ssml", "<speak>Hi</speak>")>>]

(* A translation lookup made while a reply is composed.  The first variant *)
(* of the assistant resolves keys in VoiceAssistant.t, which indexes the   *)
(* table with the dispatcher's field this.language as it is when t runs;   *)
(* the second variant resolves them in MapTranslator.getDisplayText, which *)
(* indexes the table with the language of the Output under composition.    *)
lookup(thisLanguage, input) ==
    [call |-> "lookup", t |-> thisLanguage, getDisplayText |-> DefaultReply(input).language]

(* The loop stopping at the first generic text reply. *)
setMessageFirst(output, i) ==
    LET generic == {j \in i..Len(output.replies) :
                      output.replies[j].type = "text" /\ output.replies[j].platform = "*"}
    IN IF generic = {} THEN output
       ELSE [output EXCEPT !.message =
                output.replies[CHOOSE j \in generic : \A k \in generic : j <= k].render]

(* The loop of the completion handler that sets output.message to the      *)
(* render of the last generic text reply.                                  *)
RECURSIVE setMessage(_, _)
setMessage(output, i) ==
    IF i > Len(output.replies) THEN output
    ELSE LET rp == output.replies[i]
             next == IF rp.type = "text" /\ rp.platform = "*"
                     THEN [output EXCEPT !.message = rp.render]
                     ELSE output
         IN setMessage(next, i + 1)

(* IntentHandler.isSupported(input) of a handler, given as the set of the  *)
(* intents it accepts.                                                     *)
IntentHandler_isSupported(handler, input) == input.intent \in handler

(* this.intentHandlers.find(handler => handler.isSupported(input)) from    *)
(* position i on: the isSupported calls made, and the position of the      *)
(* handler found (0: undefined).                                           *)
RECURSIVE find(_, _, _)
find(handlers, input, i) ==
    IF i > Len(handlers) THEN [calls |-> <<>>, found |-> 0]
    ELSE LET asked == [call |-> "isSupported", handler |-> i]
         IN IF IntentHandler_isSupported(handlers[i], input)
            THEN [calls |-> <<asked>>, found |-> i]
            ELSE LET rest == find(handlers, input, i + 1)
                 IN [calls |-> <<asked>> \o rest.calls, found |-> rest.found]

(* createReply that falls back also after a handler produced the Output. *)
chooseProducerAlsoFallback(handlers, input) ==
    LET search == find(handlers, input, 1)
    IN search.calls
         \o (IF search.found # 0 THEN <<[call |-> "createOutput", handler |-> search.found]>>
             ELSE <<>>)
         \o <<[call |-> "createFallbackReply", handler |-> 0]>>

(* VoiceAssistant.createReply(input): the calls it makes on the intent     *)
(* handlers and on the fallback, in order.                                 *)
chooseProducer(handlers, input) ==
    LET search == IF Len(handlers) # 0 THEN find(handlers, input, 1)
                  ELSE [calls |-> <<>>, found |-> 0]
    IN IF search.found # 0
       THEN search.calls \o <<[call |-> "createOutput", handler |-> search.found]>>
       ELSE search.calls \o <<[call |-> "createFallbackReply", handler |-> 0]>>

(* VoicePlatform.render(output) of adapter p *)
render(p, output) == [output |-> output, renderedBy |-> p]

(* JSON.stringify(value) *)
stringify(value) == <<"json", value>>

(* The payload of the catch handler: {error: error.toString()} *)
errorPayload(error) == [error |-> error]

(* --------------------------- trackers ---------------------------------- *)
(* this.trackers.forEach(tracker => tracker.<call>(message)): the trackers *)
(* are called in list order until one throws.  throwsAt is the mode in     *)
(* which a tracker throws on this call.                                    *)
firstThrowing(throwsAt) ==
    LET bad == {t \in Trackers : trackerMode[t] = throwsAt}
    IN IF bad = {} THEN 0 ELSE CHOOSE t \in bad : \A u \in bad : t <= u

(* forEach over the trackers that clears the message text of what it      *)
(* hands to them.                                                          *)
forEachTrackerClearing(call, message, throwsAt) ==
    LET ft == firstThrowing(throwsAt)
        last == IF ft = 0 THEN NumTrackers ELSE ft
    IN [t \in 1..last |->
          [call |-> call, tracker |-> t, arg |-> [message EXCEPT !.message = ""]]]

forEachTracker(call, message, throwsAt) ==
    LET ft == firstThrowing(throwsAt)
        last == IF ft = 0 THEN NumTrackers ELSE ft
    IN [t \in 1..last |-> [call |-> call, tracker |-> t, arg |-> message]]

(* ================= the reply-composition engine ======================== *)
(* Two sources of the engine are modelled: "ts", the TypeScript source     *)
(* (src/ChatbotBase.ts, lines 580-658 and 967-1104), and "js", the         *)
(* compiled module (src/unnamed/part_000, lines 346-388 and 603-734).      *)
(* Where the two differ the definitions below branch on the variable       *)
(* variant.                                                                *)

(* --------------------------- JavaScript values ------------------------- *)
(* A string is a sequence of tokens: words, the placeholder "%s", and the  *)
(* tags "<speak>" and "</speak>".                                          *)
Str(s) == [s |-> s, kind |-> "string"]
Undefined == [kind |-> "undefined"]
Null == [kind |-> "null"]
Bool(b) == [kind |-> "boolean", b |-> b]
Array(items) == [kind |-> "array", items |-> items]
(* new Message(displayText, ssml) *)
Message(displayText, ssml) == [kind |-> "Message", displayText |-> displayText, ssml |-> ssml]
(* An exception of the given name that left the call. *)
Thrown(error, about) == [error |-> error, kind |-> "throw", about |-> about]
(* A reply object with platform, type and render(): either an instance of  *)
(* a class extending Reply, or an object literal of that shape.            *)
ReplyObject(instance, platform, type, rendered) ==
    [platform |-> platform, type |-> type, render |-> rendered, kind |-> "Reply", instance |-> instance]

(* Whether a value counts as true in a condition. *)
truthy(v) ==
    CASE v.kind = "string" -> v.s # <<>>
      [] v.kind = "boolean" -> v.b
      [] v.kind \in {"undefined", "null"} -> FALSE
      [] OTHER -> TRUE

(* Array.prototype.join(",") over strings *)
RECURSIVE join(_)
join(items) ==
    IF items = <<>> THEN <<>>
    ELSE IF Len(items) = 1 THEN Head(items).s
    ELSE Head(items).s \o <<",">> \o join(Tail(items))

(* String(value) *)
toString(v) ==
    CASE v.kind = "string" -> v.s
      [] v.kind = "array" -> join(v.items)
      [] v.kind = "undefined" -> <<"undefined">>
      [] v.kind = "null" -> <<"null">>
      [] OTHER -> <<"[object Object]">>

(* "<speak>" + text + "</speak>" *)
speak(text) == <<"<speak>">> \o text \o <<"</speak>">>

(* ssml.replace(/(^<speak>|<\/speak>$)/g, "") *)
stripSpeak(ssml) ==
    LET front == IF ssml # <<>> /\ Head(ssml) = "<speak>" THEN Tail(ssml) ELSE ssml
    IN IF front # <<>> /\ front[Len(front)] = "</speak>"
       THEN SubSeq(front, 1, Len(front) - 1) ELSE front

(* The number of root envelopes around a voice markup. *)
RECURSIVE envelopes(_)
envelopes(ssml) ==
    IF Len(ssml) >= 2 /\ Head(ssml) = "<speak>" /\ ssml[Len(ssml)] = "</speak>"
    THEN 1 + envelopes(SubSeq(ssml, 2, Len(ssml) - 1))
    ELSE 0

(* sprintf of sprintf-js: the format's placeholders are replaced from left *)
(* to right by String(argument), a placeholder without argument by         *)
(* String(undefined); the parser's loop does not run for a format that is  *)
(* undefined and fails on a format that is an object.                      *)
RECURSIVE format(_, _)
format(s, args) ==
    IF s = <<>> THEN <<>>
    ELSE IF Head(s) = "%s"
    THEN (IF args = <<>> THEN <<"undefined">> ELSE toString(Head(args)))
            \o format(Tail(s), IF args = <<>> THEN <<>> ELSE Tail(args))
    ELSE <<Head(s)>> \o format(Tail(s), args)

sprintf(fmt, args) ==
    IF fmt.kind = "undefined" THEN Str(<<>>)
    ELSE IF fmt.kind # "string" THEN Thrown("TypeError", fmt)
    ELSE Str(format(fmt.s, args))

(* --------------------------- the translations -------------------------- *)
RandomGrain == 2
MaxReplies == 2

InputLanguages == {<<"e", "n">>, <<"e", "n", "-", "U", "S">>, <<"d", "e">>}

(* A Translation: key -> string | string[] *)
English ==
    [k \in {<<"WELCOME">>, <<"GREETING">>, <<"THANKS">>, <<"HELLO">>, <<"OK">>} |->
        CASE k = <<"WELCOME">> -> Str(<<"Hi">>)
          [] k = <<"GREETING">> -> Array(<<Str(<<"Hi">>), Str(<<"Hello">>)>>)
          [] k = <<"THANKS">> -> Array(<<Str(<<"Thanks", "%s">>), Str(<<"Cheers", "%s">>)>>)
          [] k = <<"HELLO">> -> Str(<<"Hello", "%s">>)
          [] k = <<"OK">> -> Str(<<"OK">>)]

(* The Translations the assistant may provide: keyed by the two-letter     *)
(* language only, or by the two-letter language and a full tag.            *)
Tables ==
    { [l \in {<<"e", "n">>} |-> English],
      [l \in {<<"e", "n">>, <<"e", "n", "-", "U", "S">>} |-> English] }
NoTranslations == [l \in {} |-> English]

(* Keys handed to the engine: keys of the table, a key it lacks, and a     *)
(* literal template.                                                       *)
Keys == {<<"WELCOME">>, <<"GREETING">>, <<"THANKS">>, <<"HELLO">>, <<"OK">>, <<"MISSING">>,
         <<"Bye", "%s">>}
Bob == Message(<<"Bob">>, speak(<<"Bob">>))
StringArgs == {<<>>, <<Str(<<"Bob">>)>>}
MessageArgs == {<<Bob>>}

(* The effects of a call: the Output's replies, the language indexes used  *)
(* on the table, and the values Math.random() is still to return, each as  *)
(* a numerator over RandomGrain.                                           *)
R(st, value) == [value |-> value, st |-> st]
failed(r) == r.value.kind = "throw"
(* The result bound to a name once: the one element of a singleton. *)
One(S) == CHOOSE x \in S : TRUE

(* Math.floor(Math.random() * length) *)
randomIndex(st, length) == (Head(st.draws) * length) \div RandomGrain

(* this.translations[input.language][key]; reading a property of the     *)
(* undefined table of an absent language is a TypeError whose message      *)
(* names the property read ("Cannot read property '<key>' of undefined").  *)
index(lang, key) ==
    IF lang \notin DOMAIN translations THEN Thrown("TypeError", Str(toString(key)))
    ELSE IF toString(key) \notin DOMAIN translations[lang] THEN Undefined
    ELSE translations[lang][toString(key)]

(* ---------------------------- MapTranslator ---------------------------- *)
(* getDisplayText with the element of a list drawn one place too far. *)
getDisplayTextOffByOne(st, input, key, args) ==
    LET looked == [st EXCEPT !.lookups = Append(@, input.language)]
        translation == index(input.language, key)
    IN IF translation.kind = "throw" THEN R(looked, translation)
       ELSE IF translation.kind = "array"
       THEN LET i == randomIndex(looked, Len(translation.items)) + 1
                chosen == IF i < Len(translation.items) THEN translation.items[i + 1] ELSE Undefined
            IN R([looked EXCEPT !.draws = Tail(@)], sprintf(chosen, args))
       ELSE R(looked, sprintf(translation, args))

getDisplayText(st, input, key, args) ==
    LET looked == [st EXCEPT !.lookups = Append(@, input.language)]
        translation == index(input.language, key)
    IN IF translation.kind = "throw" THEN R(looked, translation)
       ELSE IF translation.kind = "array"
       THEN LET i == randomIndex(looked, Len(translation.items))
                chosen == IF i < Len(translation.items) THEN translation.items[i + 1] ELSE Undefined
            IN R([looked EXCEPT !.draws = Tail(@)], sprintf(chosen, args))
       ELSE R(looked, sprintf(translation, args))

getSsml(st, input, key, args) ==
    One({ IF failed(text) \/ variant = "js" THEN text
          ELSE R(text.st, Str(speak(toString(text.value))))
          : text \in {getDisplayText(st, input, key, args)} })

getMessage(st, input, key, args) ==
    One({ IF failed(text) THEN text
          ELSE IF truthy(text.value)
          THEN R(text.st, Message(text.value.s,
                                  IF variant = "ts" THEN speak(text.value.s) ELSE text.value.s))
          ELSE R(text.st, Null)
          : text \in {getDisplayText(st, input, key, args)} })

(* hasKey (compiled module only): !!this.translations[input.language][key] *)
hasKey(st, input, key) ==
    LET looked == [st EXCEPT !.lookups = Append(@, input.language)]
        translation == index(input.language, key)
    IN IF translation.kind = "throw" THEN R(looked, translation)
       ELSE R(looked, Bool(truthy(translation)))

(* ----------------------------- DefaultReply ---------------------------- *)
(* DefaultReply.applyTextAsMessage(key, args) *)
applyTextAsMessage(key, args) ==
    LET text == sprintf(key, args)
    IN IF text.kind = "throw" THEN text
       ELSE Message(text.s, IF variant = "ts" THEN speak(text.s) ELSE text.s)

(* createMessage(key, ...args) on the DefaultReply output *)
createMessage(st, output, key, args) ==
    LET containsMessage == \E i \in DOMAIN args : args[i].kind = "Message"
        textArgs == [i \in DOMAIN args |->
                        IF args[i].kind = "Message" THEN Str(args[i].displayText)
                        ELSE Str(toString(args[i]))]
        ssmlArgs == [i \in DOMAIN args |->
                        IF args[i].kind = "Message"
                        THEN Str(IF variant = "ts" THEN stripSpeak(args[i].ssml) ELSE args[i].ssml)
                        ELSE args[i]]
        (* args.forEach and the two branches on containsMessage *)
        compose(st0) ==
            IF containsMessage
            THEN One({ IF failed(voiced) THEN voiced
                       ELSE LET ssml == IF truthy(voiced.value) THEN voiced.value
                                        ELSE sprintf(key, <<Array(ssmlArgs)>>)
                            IN IF ssml.kind = "throw" THEN R(voiced.st, ssml)
                               ELSE One({ IF failed(shown) THEN shown
                                          ELSE LET text == IF truthy(shown.value) THEN shown.value
                                                           ELSE sprintf(key, <<Array(textArgs)>>)
                                               IN IF text.kind = "throw" THEN R(shown.st, text)
                                                  ELSE R(shown.st,
                                                         Message(text.s, IF variant = "ts" THEN speak(ssml.s)
                                                                         ELSE ssml.s))
                                          : shown \in {getDisplayText(voiced.st, output, key, textArgs)} })
                       : voiced \in {getSsml(st0, output, key, ssmlArgs)} })
            ELSE One({ IF failed(message) \/ truthy(message.value) THEN message
                       ELSE R(message.st, applyTextAsMessage(key, args))
                       : message \in {getMessage(st0, output, key, args)} })
    IN IF variant = "js"
       THEN One({ IF failed(known) THEN known
                  ELSE IF ~known.value.b THEN R(known.st, Message(toString(key), toString(key)))
                  ELSE compose(known.st)
                  : known \in {hasKey(st, output, key)} })
       ELSE compose(st)

(* t that returns whatever the Resolver yields. *)
DefaultReply_tLenient(st, output, key, args) ==
    getDisplayText(st, output, key, args)

(* t(key, ...args): the strict resolution *)
DefaultReply_t(st, output, key, args) ==
    One({ IF failed(text) \/ truthy(text.value) THEN text
          ELSE R(text.st, Thrown("No translation for key", key))
          : text \in {getDisplayText(st, output, key, args)} })

(* addTextReply(message, ...args): returns the text reply it builds *)
addTextReply(st, output, message, args) ==
    One({ IF failed(msg) THEN msg
          ELSE R(msg.st, ReplyObject(FALSE, "*", "text", msg.value))
          : msg \in { IF variant = "ts" THEN DefaultReply_t(st, output, message, args)
                      ELSE createMessage(st, output, message, args) } })

RECURSIVE addReply(_, _, _, _)

(* addVoiceReply(message, ...args) *)
addVoiceReply(st, output, message, args) ==
    One({ IF failed(msg) THEN msg
          ELSE One({ IF failed(added) THEN added ELSE R(added.st, Undefined)
                     : added \in { addReply(msg.st, output,
                                            ReplyObject(FALSE, "*", "ssml", Str(msg.value.ssml)),
                                            <<>>) } })
          : msg \in {createMessage(st, output, message, args)} })

(* addMessage(key, ...args) *)
addMessage(st, output, key, args) ==
    One({ IF failed(msg) THEN msg
          ELSE One({ IF failed(added) THEN added ELSE R(added.st, Undefined)
                     : added \in {addReply(msg.st, output, msg.value, <<>>)} })
          : msg \in {createMessage(st, output, key, args)} })

(* Whether addReply takes the value for a pre-built Reply:                 *)
(* reply instanceof Reply in the TypeScript source,                        *)
(* reply.hasOwnProperty('platform') && reply.hasOwnProperty('type') in the *)
(* compiled module.                                                        *)
isReply(value) ==
    /\ value.kind = "Reply"
    /\ variant = "ts" => value.instance

(* addReply(reply, ...args) *)
addReply(st, output, value, args) ==
    IF variant = "js" /\ ~truthy(value) THEN R(st, Undefined)
    ELSE IF isReply(value)
    THEN R([st EXCEPT !.replies = Append(@, value)], Undefined)
    ELSE IF value.kind = "Message"
    THEN One({ IF failed(text) THEN text
               ELSE One({ IF failed(voice) THEN voice ELSE R(voice.st, Undefined)
                          : voice \in {addVoiceReply(text.st, output, Str(value.ssml), <<>>)} })
               : text \in {addTextReply(st, output, Str(value.displayText), <<>>)} })
    ELSE One({ IF failed(added) THEN added
               ELSE One({ IF failed(again) THEN again ELSE R(again.st, Undefined)
                          : again \in {addReply(added.st, output, added.value, <<>>)} })
               : added \in {addMessage(st, output, value, args)} })

(* A suggestion object with platform and render(): either an instance of  *)
(* a class extending Suggestion, or an object literal of that shape.       *)
SuggestionObject(instance, platform, rendered) ==
    [platform |-> platform, render |-> rendered, kind |-> "Suggestion", instance |-> instance]

(* addSuggestion(suggestion, ...args) *)
addSuggestion(st, output, value, args) ==
    IF value.kind = "Suggestion" /\ value.instance
    THEN R([st EXCEPT !.suggestions = Append(@, value)], Undefined)
    ELSE One({ IF failed(msg) THEN msg
               ELSE R([msg.st EXCEPT !.suggestions =
                          Append(@, SuggestionObject(FALSE, "*", Str(msg.value.displayText)))],
                      Undefined)
               : msg \in {createMessage(st, output, value, args)} })

(* ---------------------------- Init -------------------------------------- *)
(* The engine before any call was made on it. *)
NoCall == [value |-> Undefined, arg |-> Undefined, args |-> <<>>,
           lookups |-> <<>>, op |-> "none", before |-> <<>>,
           suggestionsBefore |-> <<>>]
NoBranch == [state |-> "none", outcome |-> "none"]
NoPromise == [value |-> "none", state |-> "none", by |-> NoPlatform]
PendingPromise == [value |-> "none", state |-> "pending", by |-> NoPlatform]

(* The dispatcher after construction: no adapter selected yet; the         *)
(* adapters, the assistant's reply callback and the trackers are whatever  *)
(* the subclass configured.                                                *)
Init ==
    /\ selectedPlatform = NoPlatform
    /\ language = <<>>
    /\ verifyImpl \in [Platforms -> VerifyKinds]
    /\ replyImpl \in ReplyKinds
    /\ trackerMode \in [Trackers -> TrackerModes]
    /\ pc = [r \in Requests |-> "idle"]
    /\ body = [r \in Requests |-> NoBody]
    /\ branch = [r \in Requests |-> [p \in Platforms |-> NoBranch]]
    /\ promise = [r \in Requests |-> NoPromise]
    /\ trace = [r \in Requests |-> <<>>]
    /\ variant = "ts"
    /\ translations = NoTranslations
    /\ reply = DefaultReply(parse(1, 1, NoBody))
    /\ lastCall = NoCall
    /\ intentHandlers = <<>>

(* ---------------------- handle: the executor --------------------------- *)
(* The configured adapters in list order that accept the body:             *)
(* this.platforms.filter(platform => platform.isSupported(json))           *)
RECURSIVE filterSupported(_, _)
filterSupported(p, json) ==
    IF p > NumPlatforms THEN <<>>
    ELSE (IF isSupported(p, json) THEN <<p>> ELSE <<>>) \o filterSupported(p + 1, json)

(* forEachBody without the early return on a false verification. *)
forEachBodyNoReturn(st, r, p, json) ==
    LET input == parse(p, r, json)
        composed == st.trace \o <<[platform |-> p, call |-> "parse"],
                                 [platform |-> p, call |-> "verify"]>>
                            \o forEachTracker("trackInput", input, "inThrows")
                            \o <<[call |-> "createReply", arg |-> input]>>
    IN [st EXCEPT !.selected = p, !.language = substr0(input.language, 2),
                  !.trace = composed,
                  !.branch[p] = [state |-> "pending", outcome |-> "none"]]

(* The body of the forEach callback for adapter p, on the executor's       *)
(* running state st.                                                       *)
forEachBody(st, r, p, json) ==
    LET input == parse(p, r, json)
        called == st.trace \o <<[platform |-> p, call |-> "parse"],
                               [platform |-> p, call |-> "verify"]>>
        tracked == called \o forEachTracker("trackInput", input, "inThrows")
        composed == tracked \o <<[call |-> "createReply", arg |-> input]>>
                        \o (IF replyImpl = "output"
                            THEN <<lookup(substr0(input.language, 2), input)>>
                            ELSE <<>>)
    IN IF verifyImpl[p] = "false"
       THEN [st EXCEPT !.selected = p, !.trace = called,
                       !.branch[p] = [state |-> "abandoned", outcome |-> "none"]]
       ELSE IF firstThrowing("inThrows") # 0
       THEN [st EXCEPT !.selected = p, !.trace = tracked, !.thrown = "trackerError",
                       !.branch[p] = [state |-> "thrown", outcome |-> "none"]]
       ELSE IF replyImpl = "throw"
       THEN [st EXCEPT !.selected = p, !.language = substr0(input.language, 2),
                       !.trace = composed, !.thrown = "replyError",
                       !.branch[p] = [state |-> "thrown", outcome |-> "none"]]
       ELSE [st EXCEPT !.selected = p, !.language = substr0(input.language, 2),
                       !.trace = composed,
                       !.branch[p] = [state |-> "pending", outcome |-> "none"]]

(* forEach over the matching adapters; an exception ends the loop. *)
RECURSIVE forEachPlatform(_, _, _, _)
forEachPlatform(st, r, matching, json) ==
    IF matching = <<>> \/ st.thrown # "none" THEN st
    ELSE forEachPlatform(forEachBody(st, r, Head(matching), json), r, Tail(matching), json)

(* The promise executor of handle, run synchronously by new Promise(...).  *)
(* An exception thrown inside it rejects the promise; so does the final    *)
(* test when selectedPlatform is still null.                               *)
executor(r, json) ==
    LET st0 == [language |-> language,
                branch |-> [p \in Platforms |-> NoBranch], trace |-> <<>>,
                selected |-> selectedPlatform, thrown |-> "none"]
        st == forEachPlatform(st0, r, filterSupported(1, json), json)
    IN [st EXCEPT !.thrown = IF st.thrown = "none" /\ st.selected = NoPlatform
                             THEN "Request not supported" ELSE st.thrown]

(* handle(request, response): runs the executor, attaches the completion   *)
(* handlers and returns the promise.                                       *)
Handle(r) ==
    /\ pc[r] = "idle"
    /\ \A q \in Requests : q < r => pc[q] # "idle"
    /\ \E json \in Bodies(r) :
         LET st == executor(r, json)
         IN /\ selectedPlatform' = st.selected
            /\ language' = st.language
            /\ body' = [body EXCEPT ![r] = json]
            /\ branch' = [branch EXCEPT ![r] = st.branch]
            /\ trace' = [trace EXCEPT ![r] = st.trace]
            /\ promise' = [promise EXCEPT ![r] =
                             IF st.thrown = "none" THEN PendingPromise
                             ELSE [value |-> st.thrown, state |-> "rejected", by |-> NoPlatform]]
    /\ pc' = [pc EXCEPT ![r] = "handled"]
    /\ UNCHANGED config
    /\ UNCHANGED composer

(* ------------------- the Promise.all callbacks ------------------------- *)
(* How Promise.all([verification, reply]) of a branch settles: rejected    *)
(* by the verification promise or by the reply promise (whichever rejects  *)
(* first), else fulfilled with a false or a true verification status.      *)
JoinOutcomes(p) ==
    IF verifyImpl[p] = "preject" /\ replyImpl = "preject" THEN {"verifyError", "replyError"}
    ELSE IF verifyImpl[p] = "preject" THEN {"verifyError"}
    ELSE IF replyImpl = "preject" THEN {"replyError"}
    ELSE IF verifyImpl[p] = "pfalse" THEN {"Verification failed"}
    ELSE {"verified"}

(* result(output) and reject(error) of the promise returned by handle: a   *)
(* promise settles only once, later calls have no effect.                  *)
settle(pr, state, value, p) ==
    IF pr.state # "pending" THEN pr
    ELSE [value |-> value, state |-> state, by |-> p]

(* values[1] taken from an array that still holds the promise of the      *)
(* Output: an object without replies.                                      *)
resolvedOutputUnawaited(r, p) ==
    IF replyImpl = "poutput"
    THEN [createReply(parse(p, r, body[r])) EXCEPT !.replies = <<>>]
    ELSE createReply(parse(p, r, body[r]))

(* values[1] in the callback of Promise.all([verification, reply]): the    *)
(* Output, whether reply was the Output itself or a promise of it.         *)
resolvedOutput(r, p) == createReply(parse(p, r, body[r]))

(* The then/catch callbacks of Promise.all for adapter p's branch: call    *)
(* result(output) or reject(...).  The branch records the outcome that     *)
(* settled the promise; the outcome of a call that came too late to have   *)
(* an effect is recorded as "late".  A reply composed asynchronously has   *)
(* resumed and made its translation lookups by the time its promise is     *)
(* joined, with this.language as it was left by the latest dispatch.       *)
Join(r, p) ==
    /\ pc[r] # "idle"
    /\ branch[r][p].state = "pending"
    /\ \E outcome \in JoinOutcomes(p) :
         /\ branch' = [branch EXCEPT ![r][p] =
                         [state |-> "joined",
                          outcome |-> IF promise[r].state = "pending" THEN outcome ELSE "late"]]
         /\ promise' = [promise EXCEPT ![r] =
                          IF outcome = "verified"
                          THEN settle(@, "resolved", resolvedOutput(r, p), p)
                          ELSE settle(@, "rejected", outcome, p)]
    /\ trace' = [trace EXCEPT ![r] =
                   IF replyImpl = "poutput"
                   THEN @ \o <<lookup(language, parse(p, r, body[r]))>>
                   ELSE @]
    /\ UNCHANGED <<selectedPlatform, language, config, pc, body>>
    /\ UNCHANGED composer

(* ------------------- the completion handlers --------------------------- *)
(* promise.then(A).catch(B): A sets output.message, notifies the trackers, *)
(* and delivers the render of this.selectedPlatform; B delivers the error  *)
(* payload, also for an exception thrown inside A.                         *)
(* thenHandler delivering before it notifies the trackers. *)
thenHandlerDeliverFirst(output, renders) ==
    LET tracked == forEachTracker("trackOutput", output, "outThrows")
        sel == selectedPlatform
        delivered == <<[platform |-> sel, call |-> "render", arg |-> output, returns |-> "payload"],
                       [call |-> "end", arg |-> stringify(render(sel, output))]>>
    IN IF sel = NoPlatform \/ ~renders THEN tracked
       ELSE IF firstThrowing("outThrows") # 0
       THEN delivered \o tracked \o <<[call |-> "end", arg |-> stringify(errorPayload("trackerError"))]>>
       ELSE delivered \o tracked

(* thenHandler delivering only once every tracker's trackOutput promise    *)
(* has completed.                                                          *)
thenHandlerAwaitTrackers(output, renders) ==
    LET tracked == forEachTracker("trackOutput", output, "outThrows")
        sel == selectedPlatform
    IN IF firstThrowing("outThrows") # 0
       THEN tracked \o <<[call |-> "end", arg |-> stringify(errorPayload("trackerError"))]>>
       ELSE IF sel = NoPlatform \/ (\E t \in Trackers : trackerMode[t] = "never") THEN tracked
       ELSE IF ~renders
       THEN tracked \o <<[platform |-> sel, call |-> "render", arg |-> output, returns |-> "throws"],
                         [call |-> "end", arg |-> stringify(errorPayload("renderError"))]>>
       ELSE tracked \o <<[platform |-> sel, call |-> "render", arg |-> output, returns |-> "payload"],
                         [call |-> "end", arg |-> stringify(render(sel, output))]>>

thenHandler(output, renders) ==
    LET tracked == forEachTracker("trackOutput", output, "outThrows")
        sel == selectedPlatform
    IN IF firstThrowing("outThrows") # 0
       THEN tracked \o <<[call |-> "end", arg |-> stringify(errorPayload("trackerError"))]>>
       ELSE IF sel = NoPlatform THEN tracked
       ELSE IF ~renders
       THEN tracked \o <<[platform |-> sel, call |-> "render", arg |-> output, returns |-> "throws"],
                         [call |-> "end", arg |-> stringify(errorPayload("renderError"))]>>
       ELSE tracked \o <<[platform |-> sel, call |-> "render", arg |-> output, returns |-> "payload"],
                         [call |-> "end", arg |-> stringify(render(sel, output))]>>

catchHandler(error) ==
    <<[call |-> "end", arg |-> stringify(errorPayload(error))]>>

Complete(r) ==
    /\ pc[r] = "handled"
    /\ promise[r].state \in {"resolved", "rejected"}
    /\ IF promise[r].state = "resolved"
       THEN \E renders \in BOOLEAN :
              LET output == setMessage(promise[r].value, 1)
              IN /\ promise' = [promise EXCEPT ![r].value = output]
                 /\ trace' = [trace EXCEPT ![r] = @ \o thenHandler(output, renders)]
       ELSE /\ trace' = [trace EXCEPT ![r] = @ \o catchHandler(promise[r].value)]
            /\ UNCHANGED promise
    /\ pc' = [pc EXCEPT ![r] = "completed"]
    /\ UNCHANGED <<selectedPlatform, language, config, body, branch>>
    /\ UNCHANGED composer

Next ==
    \/ \E r \in Requests : Handle(r)
    \/ \E r \in Requests, p \in Platforms : Join(r, p)
    \/ \E r \in Requests : Complete(r)

Spec == Init /\ [][Next]_vars

(* The event loop runs every callback whose promise has settled: the       *)
(* Promise.all callbacks of a branch and the completion handlers of a      *)
(* request are not postponed forever.  Requests arrive as they please.     *)
(* (Join always changes branch and Complete always changes pc.)            *)
Fairness ==
    /\ \A r \in Requests : \A p \in Platforms : WF_branch(Join(r, p))
    /\ \A r \in Requests : WF_pc(Complete(r))

(* The configurations in which a request can have a verification that     *)
(* succeeds and a reply that is composed, with trackers whose promises     *)
(* never complete or that throw.                                           *)
LiveInit ==
    /\ Init
    /\ trackerMode \in [Trackers -> {"never", "inThrows", "outThrows"}]
    /\ replyImpl \in {"output", "poutput"}
    /\ \E p \in Platforms : verifyImpl[p] \in {"true", "ptrue"}

LiveSpec == LiveInit /\ [][Next]_vars /\ Fairness

(* ================= the engine exercised on its own ===================== *)
MaxDraws == 2
MaxSuggestions == 2
Draws == [1..MaxDraws -> 0..(RandomGrain - 1)]

(* Replies built outside the engine: an instance of a class extending      *)
(* Reply, and an object literal of the shape of a Reply.                   *)
PrebuiltReplies ==
    { ReplyObject(TRUE, "*", "card", Str(<<"card">>)),
      ReplyObject(FALSE, "*", "text", Str(<<"Hi">>)) }
(* Suggestions built outside the engine, likewise. *)
PrebuiltSuggestions ==
    { SuggestionObject(TRUE, "google", Str(<<"chip">>)),
      SuggestionObject(FALSE, "*", Str(<<"Bye">>)) }
(* Messages resolved earlier: plain ones, one whose display text is also a *)
(* key of the table, and one whose display text holds a placeholder.       *)
ComposedMessages ==
    { Message(<<"Hi">>, speak(<<"Hi">>)), Message(<<"OK">>, speak(<<"OK">>)),
      Message(<<"WELCOME">>, speak(<<"WELCOME">>)),
      Message(<<"50", "%s">>, speak(<<"50", "%s">>)) }

(* The effects a call starts from. *)
effects(draws) ==
    [replies |-> reply.replies, suggestions |-> reply.suggestions,
     draws |-> draws, lookups |-> <<>>]

(* The call made on the engine is recorded with what it returned or threw, *)
(* the table indexes it used and the replies and suggestions before it;    *)
(* the replies and suggestions it appended stay on the Output.             *)
returned(op, arg, args, res) ==
    /\ \E r \in {res} :
         /\ lastCall' = [value |-> r.value, arg |-> arg, args |-> args,
                         lookups |-> r.st.lookups, op |-> op,
                         before |-> reply.replies,
                         suggestionsBefore |-> reply.suggestions]
         /\ reply' = [reply EXCEPT !.replies = r.st.replies,
                                   !.suggestions = r.st.suggestions]
    /\ UNCHANGED <<variant, translations>>
    /\ UNCHANGED dispatch

ComposerInit ==
    /\ selectedPlatform = NoPlatform
    /\ language = <<>>
    /\ verifyImpl = [p \in Platforms |-> "true"]
    /\ replyImpl = "output"
    /\ trackerMode = [u \in Trackers |-> "ok"]
    /\ pc = [r \in Requests |-> "idle"]
    /\ body = [r \in Requests |-> NoBody]
    /\ branch = [r \in Requests |-> [p \in Platforms |-> NoBranch]]
    /\ promise = [r \in Requests |-> NoPromise]
    /\ trace = [r \in Requests |-> <<>>]
    /\ variant \in {"ts", "js"}
    /\ translations \in Tables
    /\ reply \in {DefaultReply(parse(1, 1, [language |-> l, supported |-> {1}])) : l \in InputLanguages}
    /\ lastCall = NoCall
    /\ intentHandlers = <<>>

GetDisplayText ==
    \E key \in Keys, args \in StringArgs, draws \in Draws :
        /\ returned("getDisplayText", Str(key), args,
                    getDisplayText(effects(draws), reply, Str(key), args))

GetSsml ==
    \E key \in Keys, args \in StringArgs, draws \in Draws :
        /\ returned("getSsml", Str(key), args,
                    getSsml(effects(draws), reply, Str(key), args))

GetMessage ==
    \E key \in Keys, args \in StringArgs, draws \in Draws :
        /\ returned("getMessage", Str(key), args,
                    getMessage(effects(draws), reply, Str(key), args))

CreateMessage ==
    \E key \in Keys, args \in StringArgs \cup MessageArgs, draws \in Draws :
        /\ returned("createMessage", Str(key), args,
                    createMessage(effects(draws), reply, Str(key), args))

(* addReply with a pre-built Reply, with a Message, and with a key. *)
AddReplyObject ==
    /\ Len(reply.replies) < MaxReplies
    /\ \E value \in PrebuiltReplies, draws \in Draws :
         returned("addReply", value, <<>>, addReply(effects(draws), reply, value, <<>>))

AddReplyMessage ==
    /\ Len(reply.replies) < MaxReplies
    /\ \E value \in ComposedMessages, draws \in Draws :
         returned("addReply", value, <<>>, addReply(effects(draws), reply, value, <<>>))

AddReplyKey ==
    /\ Len(reply.replies) < MaxReplies
    /\ \E key \in Keys, args \in StringArgs, draws \in Draws :
         returned("addReply", Str(key), args, addReply(effects(draws), reply, Str(key), args))

(* addSuggestion with a pre-built Suggestion and with a label or key. *)
AddSuggestionObject ==
    /\ Len(reply.suggestions) < MaxSuggestions
    /\ \E value \in PrebuiltSuggestions, draws \in Draws :
         returned("addSuggestion", value, <<>>, addSuggestion(effects(draws), reply, value, <<>>))

AddSuggestionKey ==
    /\ Len(reply.suggestions) < MaxSuggestions
    /\ \E key \in Keys, args \in StringArgs, draws \in Draws :
         returned("addSuggestion", Str(key), args,
                  addSuggestion(effects(draws), reply, Str(key), args))

(* t(key, ...args) on the DefaultReply *)
T ==
    \E key \in Keys, args \in StringArgs, draws \in Draws :
        /\ returned("t", Str(key), args, DefaultReply_t(effects(draws), reply, Str(key), args))

(* The Inputs an adapter may hand over. *)
Inputs ==
    { [parse(p, r, [language |-> l, supported |-> {p}]) EXCEPT !.message = msg] :
        p \in Platforms, r \in Requests, l \in InputLanguages, msg \in {"raw", ""} }
InputArg(input) == [input |-> input, kind |-> "Input"]

(* ------------------------ the README assistant ------------------------ *)
(* The first variant of the assistant (src/ChatbotBase.ts, lines 14-206)   *)
(* with the MyChatBot of src/README.md.                                    *)

(* VoiceAssistant.t(key, ...args) of the first variant: the table is       *)
(* indexed with the field this.language.                                   *)
VoiceAssistant_t(st, thisLanguage, key, args) ==
    LET looked == [st EXCEPT !.lookups = Append(@, thisLanguage)]
        translation == index(thisLanguage, key)
    IN IF translation.kind = "throw" THEN R(looked, translation)
       ELSE IF translation.kind = "array"
       THEN LET i == randomIndex(looked, Len(translation.items))
                chosen == IF i < Len(translation.items) THEN translation.items[i + 1] ELSE Undefined
            IN R([looked EXCEPT !.draws = Tail(@)], sprintf(chosen, args))
       ELSE R(looked, sprintf(translation, args))

(* plainReply(message) and suggestion(label): object literals *)
plainReply(message) == ReplyObject(FALSE, "*", "plain", message)
suggestion(label) == SuggestionObject(FALSE, "*", label)

(* Output.addReply, addSuggestion and setExpectAnswer of the first variant *)
Output_addReply(output, value) == [output EXCEPT !.replies = Append(@, value)]
Output_addSuggestion(output, value) == [output EXCEPT !.suggestions = Append(@, value)]
setExpectAnswer(output, answerExpected) == [output EXCEPT !.expectAnswer = answerExpected]

(* setRetentionMessage that also asks for an answer. *)
setRetentionMessageExpecting(output, message) ==
    [output EXCEPT !.retentionMessage = message, !.expectAnswer = TRUE]

(* Output.setRetentionMessage(message) *)
setRetentionMessage(output, message) == [output EXCEPT !.retentionMessage = message]

(* loadTranslations() of MyChatBot *)
ReadmeTranslations ==
    [l \in {<<"d", "e">>, <<"e", "n">>} |->
        [k \in {<<"WELCOME">>, <<"STOP_MESSAGE">>, <<"BYE">>} |->
            CASE k = <<"WELCOME">> ->
                    IF l = <<"e", "n">> THEN Array(<<Str(<<"Hi">>), Str(<<"Hello">>)>>)
                    ELSE Array(<<Str(<<"Hi">>), Str(<<"Hallo">>)>>)
              [] k = <<"STOP_MESSAGE">> ->
                    IF l = <<"e", "n">>
                    THEN Array(<<Str(<<"Good", "bye!">>), Str(<<"See", "you", "soon.">>)>>)
                    ELSE Array(<<Str(<<"Aufwiedersehen!">>), Str(<<"Bis", "bald.">>)>>)
              [] k = <<"BYE">> ->
                    IF l = <<"e", "n">> THEN Str(<<"Bye">>) ELSE Str(<<"Tschuess">>)]]

(* An Output as the value a call returns. *)
OutputValue(output) == [output |-> output, kind |-> "Output"]

(* MyChatBot.reply that leaves the conversation closed. *)
MyChatBot_replyClosed(st, thisLanguage, input) ==
    LET output == Input_reply(input)
    IN IF input.intent \in {"LaunchRequest", "Default Welcome Intent"}
       THEN One({ IF failed(welcome) THEN welcome
                  ELSE One({ IF failed(bye) THEN bye
                             ELSE R(bye.st,
                                    OutputValue(Output_addSuggestion(
                                        Output_addReply(output, plainReply(welcome.value)),
                                        suggestion(bye.value))))
                             : bye \in {VoiceAssistant_t(welcome.st, thisLanguage, Str(<<"BYE">>), <<>>)} })
                  : welcome \in {VoiceAssistant_t(st, thisLanguage, Str(<<"WELCOME">>), <<>>)} })
       ELSE R(st, OutputValue(output))

(* MyChatBot.reply(input) *)
MyChatBot_reply(st, thisLanguage, input) ==
    LET output == Input_reply(input)
    IN IF input.intent \in {"LaunchRequest", "Default Welcome Intent"}
       THEN One({ IF failed(welcome) THEN welcome
                  ELSE One({ IF failed(bye) THEN bye
                             ELSE R(bye.st,
                                    OutputValue(setExpectAnswer(
                                        Output_addSuggestion(
                                            Output_addReply(output, plainReply(welcome.value)),
                                            suggestion(bye.value)),
                                        TRUE)))
                             : bye \in {VoiceAssistant_t(welcome.st, thisLanguage, Str(<<"BYE">>), <<>>)} })
                  : welcome \in {VoiceAssistant_t(st, thisLanguage, Str(<<"WELCOME">>), <<>>)} })
       ELSE IF input.intent \in {"Exit", "SessionEndedRequest"}
       THEN One({ IF failed(stop) THEN stop
                  ELSE R(stop.st, OutputValue(Output_addReply(output, plainReply(stop.value))))
                  : stop \in {VoiceAssistant_t(st, thisLanguage, Str(<<"STOP_MESSAGE">>), <<>>)} })
       ELSE R(st, OutputValue(output))

ReadmeIntents == {"LaunchRequest", "Default Welcome Intent", "Exit", "SessionEndedRequest", "Other"}

ReadmeInit ==
    /\ selectedPlatform = NoPlatform
    /\ language = <<>>
    /\ verifyImpl = [p \in Platforms |-> "true"]
    /\ replyImpl = "output"
    /\ trackerMode = [u \in Trackers |-> "ok"]
    /\ pc = [r \in Requests |-> "idle"]
    /\ body = [r \in Requests |-> NoBody]
    /\ branch = [r \in Requests |-> [p \in Platforms |-> NoBranch]]
    /\ promise = [r \in Requests |-> NoPromise]
    /\ trace = [r \in Requests |-> <<>>]
    /\ variant = "first"
    /\ translations = ReadmeTranslations
    /\ reply = Input_reply(parse(1, 1, NoBody))
    /\ lastCall = NoCall
    /\ intentHandlers = <<>>

(* The part of handle that composes the reply for a parsed Input: it sets  *)
(* this.language to the first two characters of the Input's language and   *)
(* calls reply(input).                                                     *)
ReadmeReply ==
    \E input \in Inputs, intent \in ReadmeIntents, draws \in Draws :
        \E res \in { MyChatBot_reply([replies |-> <<>>, suggestions |-> <<>>,
                                      draws |-> draws, lookups |-> <<>>],
                                      substr0(input.language, 2),
                                      [input EXCEPT !.intent = intent]) } :
            /\ language' = substr0(input.language, 2)
            /\ lastCall' = [NoCall EXCEPT !.op = "reply",
                                          !.arg = InputArg([input EXCEPT !.intent = intent]),
                                          !.value = IF failed(res) THEN res.value ELSE Undefined,
                                          !.lookups = res.st.lookups]
            /\ reply' = IF failed(res) THEN reply ELSE res.value.output
            /\ UNCHANGED <<selectedPlatform, verifyImpl, replyImpl, trackerMode,
                           pc, body, branch, promise, trace, intentHandlers>>
            /\ UNCHANGED <<variant, translations>>

ReadmeNext ==
    \/ ReadmeReply

ReadmeSpec == ReadmeInit /\ [][ReadmeNext]_vars

(* An Output is derived from an Input and becomes the Output at hand. *)
derived(op, input, output) ==
    /\ lastCall' = [NoCall EXCEPT !.op = op, !.arg = InputArg(input)]
    /\ reply' = output
    /\ UNCHANGED <<variant, translations>>
    /\ UNCHANGED dispatch

(* new DefaultReply(input, translations) *)
NewDefaultReply ==
    \E input \in Inputs :
        /\ derived("DefaultReply", input, DefaultReply(input))

(* input.reply() *)
InputReply ==
    \E input \in Inputs :
        /\ derived("reply", input, Input_reply(input))

(* The intents an Input may carry, and the intent handlers an assistant   *)
(* may have loaded: each handler is the set of intents it supports.       *)
Intents == {"LaunchRequest", "Exit"}
MaxHandlers == 3
RECURSIVE HandlerLists(_)
HandlerLists(n) ==
    IF n = 0 THEN {<<>>}
    ELSE HandlerLists(n - 1)
           \cup {Append(hs, h) : hs \in {l \in HandlerLists(n - 1) : Len(l) = n - 1},
                                 h \in SUBSET Intents}

IntentInit ==
    /\ selectedPlatform = NoPlatform
    /\ language = <<>>
    /\ verifyImpl = [p \in Platforms |-> "true"]
    /\ replyImpl = "output"
    /\ trackerMode = [u \in Trackers |-> "ok"]
    /\ pc = [r \in Requests |-> "idle"]
    /\ body = [r \in Requests |-> NoBody]
    /\ branch = [r \in Requests |-> [p \in Platforms |-> NoBranch]]
    /\ promise = [r \in Requests |-> NoPromise]
    /\ trace = [r \in Requests |-> <<>>]
    /\ variant = "ts"
    /\ translations = NoTranslations
    /\ reply = DefaultReply(parse(1, 1, NoBody))
    /\ lastCall = NoCall
    /\ intentHandlers \in HandlerLists(MaxHandlers)

(* createReply(input) on the assistant *)
CreateReply ==
    \E input \in Inputs, intent \in Intents :
        /\ lastCall' = [NoCall EXCEPT
                          !.op = "createReply",
                          !.arg = InputArg([input EXCEPT !.intent = intent]),
                          !.value = [calls |-> chooseProducer(intentHandlers,
                                                              [input EXCEPT !.intent = intent]),
                                     kind |-> "calls"]]
        /\ UNCHANGED <<variant, translations, reply>>
        /\ UNCHANGED dispatch

IntentNext ==
    \/ CreateReply

IntentSpec == IntentInit /\ [][IntentNext]_vars

(* The two setters called on the Output at hand, between calls that add    *)
(* pre-built replies and suggestions to it.                                *)
RetentionMessages == {"Still there?", "Hello?"}

called(op, arg, output) ==
    /\ lastCall' = [NoCall EXCEPT !.op = op, !.arg = arg]
    /\ reply' = output
    /\ UNCHANGED <<variant, translations>>
    /\ UNCHANGED dispatch

SetExpectAnswer ==
    \E answerExpected \in BOOLEAN :
        /\ called("setExpectAnswer", Bool(answerExpected),
                  setExpectAnswer(reply, answerExpected))

SetRetentionMessage ==
    \E message \in RetentionMessages :
        /\ called("setRetentionMessage", Str(message),
                  setRetentionMessage(reply, message))

SetterNext ==
    \/ SetExpectAnswer
    \/ SetRetentionMessage
    \/ AddReplyObject
    \/ AddSuggestionObject

SetterSpec == ComposerInit /\ [][SetterNext]_vars

OutputNext ==
    \/ NewDefaultReply
    \/ InputReply

OutputSpec == ComposerInit /\ [][OutputNext]_vars

(* The calls that resolve a key and leave the Output as it is. *)
ResolverNext ==
    \/ GetDisplayText
    \/ GetSsml
    \/ GetMessage
    \/ CreateMessage

ResolverSpec == ComposerInit /\ [][ResolverNext]_vars

(* The calls that compose the Output. *)
ComposerNext ==
    \/ AddReplyObject
    \/ AddReplyMessage
    \/ AddReplyKey

ComposerSpec == ComposerInit /\ [][ComposerNext]_vars

(* The calls that add suggestions to the Output, and strict resolution. *)
SuggestionNext ==
    \/ AddSuggestionObject
    \/ AddSuggestionKey
    \/ T

SuggestionSpec == ComposerInit /\ [][SuggestionNext]_vars

(* ======================= properties of dispatch ======================== *)
(* The calls of request r of one kind, in the order they were made. *)
Calls(r, c) == SelectSeq(trace[r], LAMBDA e : e.call = c)

Handled(r) == pc[r] # "idle"
Matching(r) == body[r].supported
NoMatch(r) == Handled(r) /\ Matching(r) = {}
OnlyMatch(r, p) == Handled(r) /\ Matching(r) = {p}
FirstMatch(r) == Head(filterSupported(1, body[r]))

(* The Input adapter p parses for request r, the Output composed for it. *)
InputOf(r, p) == parse(p, r, body[r])
ComposedOutput(r, p) == createReply(InputOf(r, p))
(* The same Output object, whatever its message has been set to. *)
SameOutput(a, b) == [a EXCEPT !.message = ""] = [b EXCEPT !.message = ""]

(* Adapter p's verification of request r has succeeded by now. *)
VerificationSucceeded(r, p) ==
    /\ p \in Matching(r)
    /\ \/ verifyImpl[p] = "true"
       \/ verifyImpl[p] = "ptrue" /\ branch[r][p].state = "joined"

RenderFailed(r) == \E i \in DOMAIN trace[r] :
    trace[r][i].call = "render" /\ trace[r][i].returns = "throws"

(* ------------------------------- C1 ------------------------------------ *)
(* C1: a request that no configured adapter supports, at any place in a   *)
(* sequence of requests, has its promise rejected with 'Request not       *)
(* supported' and the core never calls response.end for it.               *)
C1_UnsupportedRejectedSilently ==
    \A r \in Requests : NoMatch(r) =>
        /\ promise[r].state = "rejected"
        /\ promise[r].value = "Request not supported"
        /\ Calls(r, "end") = <<>>

(* ------------------------------- C2 ------------------------------------ *)
(* C2: a completed request matched by exactly one adapter, whose          *)
(* verification succeeded and whose reply was composed and rendered, has  *)
(* its promise resolved with the composed Output and exactly the          *)
(* serialized render of that adapter delivered.                           *)
C2_SingleMatchDeliversOwnRender ==
    \A r \in Requests : \A p \in Platforms :
        ( /\ OnlyMatch(r, p)
          /\ pc[r] = "completed"
          /\ verifyImpl[p] \in {"true", "ptrue"}
          /\ replyImpl \in {"output", "poutput"}
          /\ ~RenderFailed(r) )
        => /\ promise[r].state = "resolved"
           /\ SameOutput(promise[r].value, ComposedOutput(r, p))
           /\ Calls(r, "end") =
                <<[call |-> "end", arg |-> stringify(render(p, promise[r].value))]>>

(* ------------------------------- C3 ------------------------------------ *)
(* C3: of several matching adapters only the first in configuration order *)
(* is parsed, verified, composed for and used to render.                  *)
C3_OnlyFirstMatchUsed ==
    \A r \in Requests : \A i \in DOMAIN trace[r] :
        LET e == trace[r][i]
        IN /\ e.call \in {"parse", "verify", "render"} => e.platform = FirstMatch(r)
           /\ e.call \in {"createReply", "trackInput"} => e.arg.platform = FirstMatch(r)

(* ------------------------------- C4 ------------------------------------ *)
(* C4: render is called only once the promise is resolved from a joined   *)
(* verification result and composed Output, and only on an adapter whose  *)
(* verification of this request has succeeded.                            *)
C4_RenderOnlyAfterVerification ==
    \A r \in Requests : \A i \in DOMAIN trace[r] :
        trace[r][i].call = "render" =>
            /\ promise[r].state = "resolved"
            /\ branch[r][promise[r].by].state = "joined"
            /\ VerificationSucceeded(r, trace[r][i].platform)

(* ------------------------------- C5 ------------------------------------ *)
(* C5: a completed request whose only matching adapter's verify returned  *)
(* a promise resolving to false, and whose reply composition did not      *)
(* fail, is rejected with 'Verification failed', is never rendered and    *)
(* reaches no tracker's trackOutput.                                      *)
C5_AsyncFalseRejects ==
    \A r \in Requests : \A p \in Platforms :
        ( /\ OnlyMatch(r, p)
          /\ pc[r] = "completed"
          /\ verifyImpl[p] = "pfalse"
          /\ replyImpl \in {"output", "poutput"} )
        => /\ promise[r].state = "rejected"
           /\ promise[r].value = "Verification failed"
           /\ Calls(r, "render") = <<>>
           /\ Calls(r, "trackOutput") = <<>>

(* ------------------------------- C6 ------------------------------------ *)
(* C6: the branch of an adapter whose verify returned false synchronously *)
(* is abandoned: no trackInput and no reply composition for its Input,    *)
(* the branch never settles the promise, and when it is the only branch   *)
(* the promise stays pending with no render and no response.end.          *)
C6_SyncFalseAbandonsBranch ==
    \A r \in Requests : \A p \in Platforms :
        (Handled(r) /\ p \in Matching(r) /\ verifyImpl[p] = "false")
        => /\ \A i \in DOMAIN trace[r] :
                trace[r][i].call \in {"trackInput", "createReply"}
                    => trace[r][i].arg # InputOf(r, p)
           /\ branch[r][p].state \in {"none", "abandoned"}
           /\ promise[r].by # p
           /\ OnlyMatch(r, p) =>
                /\ promise[r].state = "pending"
                /\ Calls(r, "render") = <<>>
                /\ Calls(r, "end") = <<>>

(* A request with a single matching adapter whose verify returned false. *)
C6_Witness ==
    \E r \in Requests : \E p \in Platforms :
        /\ OnlyMatch(r, p) /\ verifyImpl[p] = "false"
        /\ branch[r][p].state = "abandoned"
        /\ \E i \in DOMAIN trace[r] : trace[r][i] = [platform |-> p, call |-> "verify"]

(* ------------------------------- C7 ------------------------------------ *)
(* C7: once handle's promise is resolved, response.end is called at most  *)
(* once, and exactly once when the completion handlers have run.          *)
C7_DeliveredExactlyOnce ==
    \A r \in Requests : promise[r].state = "resolved" =>
        /\ Len(Calls(r, "end")) <= 1
        /\ pc[r] = "completed" => Len(Calls(r, "end")) = 1

(* A successfully completed request with its rendered payload delivered. *)
C7_Witness ==
    \E r \in Requests :
        /\ promise[r].state = "resolved" /\ pc[r] = "completed"
        /\ Calls(r, "end") = <<[call |-> "end",
                                arg |-> stringify(render(promise[r].by, promise[r].value))]>>

(* ------------------------------- C8 ------------------------------------ *)
(* C8: a tracker failure never rejects handle's promise and never puts an *)
(* error payload in place of the rendered payload.                        *)
C8_TrackerFailureHarmless ==
    \A r \in Requests :
        /\ ~(promise[r].state = "rejected" /\ promise[r].value = "trackerError")
        /\ \A i \in DOMAIN trace[r] :
             trace[r][i] # [call |-> "end", arg |-> stringify(errorPayload("trackerError"))]

C10_EachTrackerOnceEach ==
    \A r \in Requests : \A p \in Platforms :
        (OnlyMatch(r, p) /\ promise[r].state = "resolved" /\ pc[r] = "completed")
        => \A t \in Trackers :
             \E i \in DOMAIN trace[r] : \E j \in DOMAIN trace[r] :
                /\ i < j
                /\ trace[r][i] = [call |-> "trackInput", tracker |-> t, arg |-> InputOf(r, p)]
                /\ trace[r][j] = [call |-> "trackOutput", tracker |-> t, arg |-> promise[r].value]
                /\ \A k \in DOMAIN trace[r] :
                     (trace[r][k].call \in {"trackInput", "trackOutput"}
                        /\ trace[r][k].tracker = t) => k \in {i, j}

(* ------------------------------- C11 ----------------------------------- *)
(* C11: a dispatched request with a matching adapter whose verification   *)
(* succeeds and whose reply is composed has response.end called           *)
(* eventually, whatever becomes of the promises the trackers returned,    *)
(* also when they never complete.                                         *)
C11_DeliveryDoesNotWaitForTrackers ==
    \A r \in Requests : \A p \in Platforms :
        ( /\ Handled(r) /\ p \in Matching(r)
          /\ verifyImpl[p] \in {"true", "ptrue"}
          /\ replyImpl \in {"output", "poutput"} )
        ~> (Calls(r, "end") # <<>>)

(* A completed dispatch whose trackers' promises never complete: every    *)
(* tracker was notified of input and output, and the rendered payload was *)
(* delivered.                                                             *)
C11_Witness ==
    \E r \in Requests : \E p \in Platforms :
        /\ \A t \in Trackers : trackerMode[t] = "never"
        /\ OnlyMatch(r, p) /\ pc[r] = "completed"
        /\ Len(Calls(r, "trackInput")) = NumTrackers
        /\ Len(Calls(r, "trackOutput")) = NumTrackers
        /\ Calls(r, "end") = <<[call |-> "end", arg |-> stringify(render(p, promise[r].value))]>>

(* ------------------------------- C12 ----------------------------------- *)
(* C12: of two requests on one dispatcher, each matched by a different    *)
(* adapter, a request whose verification or composition is asynchronous   *)
(* is rendered only by the adapter that matched it, never by the adapter  *)
(* of the other request, in every interleaving.                           *)
C12_RenderedByOwnAdapter ==
    \A r \in Requests : \A q \in Requests : \A p \in Platforms : \A o \in Platforms :
        ( /\ r # q /\ p # o
          /\ OnlyMatch(r, p) /\ OnlyMatch(q, o)
          /\ (verifyImpl[p] = "ptrue" \/ replyImpl = "poutput") )
        => \A i \in DOMAIN trace[r] :
             /\ trace[r][i].call = "render" => trace[r][i].platform = p
             /\ (trace[r][i].call = "end" /\ promise[r].state = "resolved" /\ ~RenderFailed(r))
                   => trace[r][i].arg = stringify(render(p, promise[r].value))

(* ------------------------------- C13 ----------------------------------- *)
(* C13: every translation lookup made while the reply of a request is     *)
(* composed uses the language of that request, also when another request  *)
(* of a different language was dispatched while the composition was       *)
(* suspended.                                                             *)
C13_LookupsUseOwnLanguage ==
    \A r \in Requests : \A i \in DOMAIN trace[r] :
        trace[r][i].call = "lookup" =>
            /\ trace[r][i].t = substr0(body[r].language, 2)
            /\ trace[r][i].getDisplayText = body[r].language

(* ================= properties of the engine ============================ *)
(* The call recorded in lastCall was made with a key. *)
WithKey == lastCall.op # "none" /\ lastCall.arg.kind = "string"
(* The table has an entry for the language of the Output. *)
LanguageKnown == reply.language \in DOMAIN translations
(* The table has an entry for the key under the language of the Output. *)
KeyKnown == LanguageKnown /\ WithKey /\ lastCall.arg.s \in DOMAIN translations[reply.language]
(* The value stored for the key. *)
Stored == translations[reply.language][lastCall.arg.s]
(* The templates stored for the key: the string, or the variants. *)
Templates == IF Stored.kind = "array" THEN {Stored.items[i].s : i \in DOMAIN Stored.items}
             ELSE {Stored.s}
(* The call failed with an exception. *)
Raised == lastCall.value.kind = "throw"
(* The arguments of the call as display texts. *)
TextArgs == [i \in DOMAIN lastCall.args |->
                IF lastCall.args[i].kind = "Message" THEN Str(lastCall.args[i].displayText)
                ELSE lastCall.args[i]]
HasMessageArg == \E i \in DOMAIN lastCall.args : lastCall.args[i].kind = "Message"

(* ------------------------------- C14 ----------------------------------- *)
(* C14: every lookup in the translation table uses as language index the *)
(* first two characters of the language tag, never the full tag.          *)
C14_LookupsUseTwoLetterLanguage ==
    \A i \in DOMAIN lastCall.lookups :
        lastCall.lookups[i] = substr0(reply.language, 2)

(* ------------------------------- C15 ----------------------------------- *)
(* C15: getDisplayText never raises an error: it returns null when the    *)
(* table has no entry for the language or for the key under it, and the   *)
(* resolved text otherwise.                                               *)
C15_GetDisplayTextNeverRaises ==
    lastCall.op = "getDisplayText" =>
        /\ ~Raised
        /\ ~KeyKnown => lastCall.value = Null
        /\ KeyKnown => \E tpl \in Templates : lastCall.value = Str(format(tpl, lastCall.args))

(* ------------------------------- C16 ----------------------------------- *)
(* The display text a resolution returned: the string itself, the string  *)
(* inside the envelope getSsml put around it, or the Message's text.      *)
ResolvedText ==
    IF lastCall.value.kind = "Message" THEN lastCall.value.displayText
    ELSE IF lastCall.op = "getSsml" /\ variant = "ts" THEN stripSpeak(lastCall.value.s)
    ELSE lastCall.value.s

(* C16: a resolution of a key whose stored value is a non-empty list of   *)
(* variants returns one of the listed variants with the arguments         *)
(* substituted, never anything from outside the list; and every listed    *)
(* variant is a possible result of resolving the key.                     *)
C16_VariantFromList ==
    /\ ( /\ lastCall.op \in {"getDisplayText", "getSsml", "getMessage", "createMessage"}
          /\ KeyKnown /\ Stored.kind = "array" )
        => /\ ~Raised
           /\ \E i \in DOMAIN Stored.items :
                 ResolvedText = format(Stored.items[i].s, TextArgs)
    /\ LanguageKnown =>
          \A key \in Keys \cap DOMAIN translations[reply.language] :
            LET stored == translations[reply.language][key]
            IN stored.kind = "array" =>
                 \A i \in DOMAIN stored.items : \A args \in StringArgs :
                    ENABLED ( /\ GetDisplayText
                              /\ lastCall'.arg = Str(key)
                              /\ lastCall'.args = args
                              /\ lastCall'.value = Str(format(stored.items[i].s, args)) )

(* The second of two variants was drawn and its placeholder replaced by   *)
(* the argument.                                                          *)
C16_Witness ==
    /\ lastCall.op = "getDisplayText"
    /\ lastCall.arg = Str(<<"THANKS">>)
    /\ lastCall.args = <<Str(<<"Bob">>)>>
    /\ lastCall.value = Str(<<"Cheers", "Bob">>)

(* ------------------------------- C17 ----------------------------------- *)
(* The voice markup has one root envelope and no other tag of it inside.  *)
OneEnvelope(ssml) ==
    /\ envelopes(ssml) = 1
    /\ \A i \in 2..(Len(ssml) - 1) : ssml[i] \notin {"<speak>", "</speak>"}

(* C17: the voice markup of a resolved phrase has exactly one <speak>     *)
(* root envelope around its content: the markup getSsml returns for a     *)
(* plain key, and the markup of a Message that createMessage composes     *)
(* from arguments that are Messages with an envelope of their own.        *)
C17_ExactlyOneEnvelope ==
    /\ (lastCall.op = "getSsml" /\ KeyKnown /\ ~Raised)
          => OneEnvelope(lastCall.value.s)
    /\ (lastCall.op = "createMessage" /\ KeyKnown /\ HasMessageArg /\ ~Raised)
          => OneEnvelope(lastCall.value.ssml)

(* ------------------------------- C18 ----------------------------------- *)
(* C18: when the table has no entry for the key under the language of the *)
(* Output, createMessage takes the key for a literal template: it always  *)
(* returns a Message, never null and never an error, whose display text   *)
(* is the key with its placeholders replaced in order by the arguments.   *)
C18_LiteralTemplateFallback ==
    (lastCall.op = "createMessage" /\ ~KeyKnown /\ Len(lastCall.args) <= 1)
        => /\ lastCall.value.kind = "Message"
           /\ lastCall.value.displayText = format(lastCall.arg.s, TextArgs)

(* ------------------------------- C19 ----------------------------------- *)
(* The replies the last call appended to the Output. *)
Appended ==
    IF Len(reply.replies) >= Len(lastCall.before)
    THEN SubSeq(reply.replies, Len(lastCall.before) + 1, Len(reply.replies))
    ELSE <<>>
KeepsEarlierReplies ==
    /\ Len(reply.replies) >= Len(lastCall.before)
    /\ SubSeq(reply.replies, 1, Len(lastCall.before)) = lastCall.before

(* C19: addReply with a Message, or with a key of the table and its       *)
(* arguments, appends exactly two replies to the Output: a text reply and *)
(* then a voice reply, both of platform '*'.                              *)
C19_MessageAppendsTextThenVoice ==
    (/\ lastCall.op = "addReply"
     /\ \/ lastCall.arg.kind = "Message"
        \/ lastCall.arg.kind = "string" /\ KeyKnown)
        => /\ KeepsEarlierReplies
           /\ Len(Appended) = 2
           /\ Appended[1].type = "text" /\ Appended[1].platform = "*"
           /\ Appended[2].type = "ssml" /\ Appended[2].platform = "*"

(* ------------------------------- C20 ----------------------------------- *)
(* C20: addReply with a pre-built Reply appends exactly that Reply at the *)
(* end of the replies of the Output, and no addReply call removes,        *)
(* reorders or replaces a reply added by an earlier call.                 *)
C20_PrebuiltReplyAppended ==
    /\ lastCall.op = "addReply" => KeepsEarlierReplies
    /\ (lastCall.op = "addReply" /\ lastCall.arg.kind = "Reply")
          => reply.replies = Append(lastCall.before, lastCall.arg)

(* ------------------------------- C21 ----------------------------------- *)
(* The suggestions the last call appended to the Output. *)
Suggested ==
    IF Len(reply.suggestions) >= Len(lastCall.suggestionsBefore)
    THEN SubSeq(reply.suggestions, Len(lastCall.suggestionsBefore) + 1, Len(reply.suggestions))
    ELSE <<>>
KeepsEarlierSuggestions ==
    /\ Len(reply.suggestions) >= Len(lastCall.suggestionsBefore)
    /\ SubSeq(reply.suggestions, 1, Len(lastCall.suggestionsBefore)) = lastCall.suggestionsBefore
(* The display texts the Resolver can yield for the key and arguments of   *)
(* the call: a stored template, or else the key as a literal template.     *)
YieldedTexts ==
    IF KeyKnown THEN {format(tpl, lastCall.args) : tpl \in Templates}
    ELSE {format(lastCall.arg.s, lastCall.args)}

(* C21: every addSuggestion call appends exactly one suggestion after the *)
(* earlier ones: the pre-built Suggestion itself, or for a label or key a *)
(* suggestion of platform '*' that renders the display text resolved for  *)
(* the key and arguments.                                                 *)
C21_OneSuggestionPerCall ==
    lastCall.op = "addSuggestion" =>
        /\ KeepsEarlierSuggestions
        /\ Len(Suggested) = 1
        /\ lastCall.arg.kind = "Suggestion" => Suggested[1] = lastCall.arg
        /\ lastCall.arg.kind = "string" =>
              /\ Suggested[1].platform = "*"
              /\ Suggested[1].render.kind = "string"
              /\ Suggested[1].render.s \in YieldedTexts

(* ------------------------------- C22 ----------------------------------- *)
(* The Resolver yields a text for the key of the call: the table has a    *)
(* non-empty template for it under the language of the Output.            *)
YieldsText == KeyKnown /\ \E tpl \in Templates : format(tpl, lastCall.args) # <<>>

(* C22: t(key) fails with an error that names the key whenever the        *)
(* Resolver yields no text for the language and key, and returns the      *)
(* resolved text otherwise; a failing call leaves the replies and         *)
(* suggestions, the retention message and expectAnswer of the Output as   *)
(* they were.                                                             *)
C22_StrictResolution ==
    lastCall.op = "t" =>
        /\ ~YieldsText =>
              /\ Raised
              /\ toString(lastCall.value.about) = lastCall.arg.s
        /\ YieldsText =>
              /\ lastCall.value.kind = "string"
              /\ lastCall.value.s \in YieldedTexts
        /\ Raised =>
              /\ reply.replies = lastCall.before
              /\ reply.suggestions = lastCall.suggestionsBefore
              /\ reply.retentionMessage = "undefined"
              /\ reply.expectAnswer = FALSE

(* t failed for a key the table lacks, on an Output that has a suggestion. *)
C22_Witness ==
    /\ lastCall.op = "t"
    /\ LanguageKnown /\ ~KeyKnown
    /\ lastCall.value = Thrown("No translation for key", lastCall.arg)
    /\ reply.suggestions # <<>>

(* ------------------------------- C23 ----------------------------------- *)
(* C23: the Output derived from an Input, by input.reply() or by the      *)
(* constructor of DefaultReply, has the id of the Input followed by       *)
(* '.reply', the user, session, platform, language, intent and context of *)
(* the Input, an empty message, no replies, no suggestions and            *)
(* expectAnswer false.                                                    *)
C23_OutputDerivedFromInput ==
    lastCall.op \in {"DefaultReply", "reply"} =>
        LET input == lastCall.arg.input
        IN /\ reply.id = input.id \o <<".reply">>
           /\ reply.userId = input.userId
           /\ reply.sessionId = input.sessionId
           /\ reply.platform = input.platform
           /\ reply.language = input.language
           /\ reply.intent = input.intent
           /\ reply.context = input.context
           /\ reply.message = ""
           /\ reply.replies = <<>>
           /\ reply.suggestions = <<>>
           /\ reply.expectAnswer = FALSE

(* ------------------------------- C24 ----------------------------------- *)
(* The producers invoked by the last createReply call, in order. *)
Producers ==
    SelectSeq(lastCall.value.calls, LAMBDA c : c.call \in {"createOutput", "createFallbackReply"})
(* The handlers that support the Input of the call. *)
Supporting ==
    {i \in DOMAIN intentHandlers :
        IntentHandler_isSupported(intentHandlers[i], lastCall.arg.input)}

(* C24: for every Input the reply composition invokes exactly one         *)
(* producer: createOutput of the first intent handler in list order that  *)
(* supports the Input, or createFallbackReply if and only if no handler   *)
(* supports it, an empty handler list included; no handler after the      *)
(* first supporting one is asked or produces output.                      *)
C24_ExactlyOneProducer ==
    lastCall.op = "createReply" =>
        /\ Len(Producers) = 1
        /\ Supporting = {} <=> Producers[1].call = "createFallbackReply"
        /\ Supporting # {} =>
              /\ Producers[1] = [call |-> "createOutput", handler |-> CHOOSE i \in Supporting :
                                                              \A j \in Supporting : i <= j]
              /\ \A k \in DOMAIN lastCall.value.calls :
                    lastCall.value.calls[k].handler <= Producers[1].handler

(* Two handlers support the Input and the first of them produced. *)
C24_Witness ==
    /\ lastCall.op = "createReply"
    /\ Cardinality(Supporting) >= 2
    /\ 1 \notin Supporting
    /\ Len(Producers) = 1 /\ Producers[1].call = "createOutput"

(* ------------------------------- C25 ----------------------------------- *)
(* What the dispatcher makes of a request that adapter p alone matched    *)
(* and whose Output was composed, stated without regard to the form in    *)
(* which createReply handed the Output over.                              *)
SettledAs(r, p) ==
    IF firstThrowing("inThrows") # 0 THEN [value |-> "trackerError", state |-> "rejected"]
    ELSE CASE verifyImpl[p] \in {"true", "ptrue"} ->
                [value |-> setMessage(ComposedOutput(r, p), 1), state |-> "resolved"]
           [] verifyImpl[p] = "pfalse" -> [value |-> "Verification failed", state |-> "rejected"]
           [] verifyImpl[p] = "preject" -> [value |-> "verifyError", state |-> "rejected"]
TrackerCalls(r) ==
    SelectSeq(trace[r], LAMBDA e : e.call \in {"trackInput", "trackOutput"})
TrackedAs(r, p) ==
    forEachTracker("trackInput", InputOf(r, p), "inThrows")
      \o (IF SettledAs(r, p).state = "resolved"
          THEN forEachTracker("trackOutput", SettledAs(r, p).value, "outThrows")
          ELSE <<>>)
(* The payloads that can be delivered: the render of the Output, or the   *)
(* payload of the error that ended the request.                           *)
DeliveredAs(r, p) ==
    IF SettledAs(r, p).state = "rejected"
    THEN {stringify(errorPayload(SettledAs(r, p).value))}
    ELSE IF firstThrowing("outThrows") # 0 THEN {stringify(errorPayload("trackerError"))}
    ELSE {stringify(errorPayload("renderError"))}
           \cup {stringify(render(o, SettledAs(r, p).value)) : o \in Platforms}

(* C25: an Output returned at once and a promise that resolves to the     *)
(* same Output are treated alike: for the same request and verification   *)
(* result, the value handle's promise settles with, the tracker calls and *)
(* the payload delivered are the same in both cases.                      *)
C25_ImmediateAndEventualAlike ==
    \A r \in Requests : \A p \in Platforms :
        ( /\ OnlyMatch(r, p) /\ pc[r] = "completed"
          /\ replyImpl \in {"output", "poutput"} )
        => /\ promise[r].state = SettledAs(r, p).state
           /\ promise[r].value = SettledAs(r, p).value
           /\ TrackerCalls(r) = TrackedAs(r, p)
           /\ Len(Calls(r, "end")) = 1
           /\ Calls(r, "end")[1].arg \in DeliveredAs(r, p)

(* A request whose Output came as a promise was resolved and delivered. *)
C25_Witness ==
    \E r \in Requests : \E p \in Platforms :
        /\ OnlyMatch(r, p) /\ pc[r] = "completed" /\ replyImpl = "poutput"
        /\ promise[r].state = "resolved"
        /\ \E o \in Platforms :
             Calls(r, "end") = <<[call |-> "end", arg |-> stringify(render(o, promise[r].value))]>>

(* ------------------------------- C26 ----------------------------------- *)
(* C26: every call of handle eventually settles the promise it returned,  *)
(* resolved with the Output or rejected with an error; no request is left *)
(* with a promise that neither resolves nor rejects.  (Every verification *)
(* and every reply composition of the model completes.)                   *)
C26_EveryHandleSettles ==
    \A r \in Requests :
        (pc[r] # "idle") ~> (promise[r].state \in {"resolved", "rejected"})

(* ------------------------------- C27 ----------------------------------- *)
(* C27: with the assistant and the translations of the README, an Input   *)
(* with intent 'LaunchRequest' and language 'en' is answered by an Output *)
(* with exactly one reply that renders 'Hi' or 'Hello', exactly one       *)
(* suggestion that renders 'Bye', and expectAnswer true.                  *)
C27_ReadmeWelcome ==
    ( /\ lastCall.op = "reply"
      /\ lastCall.arg.input.intent = "LaunchRequest"
      /\ lastCall.arg.input.language = <<"e", "n">> )
    => /\ ~Raised
       /\ Len(reply.replies) = 1
       /\ reply.replies[1].render \in {Str(<<"Hi">>), Str(<<"Hello">>)}
       /\ Len(reply.suggestions) = 1
       /\ reply.suggestions[1].render = Str(<<"Bye">>)
       /\ reply.expectAnswer = TRUE

(* The welcome was answered with the second phrase of the list. *)
C27_Witness ==
    /\ lastCall.op = "reply"
    /\ lastCall.arg.input.intent = "LaunchRequest"
    /\ lastCall.arg.input.language = <<"e", "n">>
    /\ Len(reply.replies) = 1 /\ reply.replies[1].render = Str(<<"Hello">>)
    /\ Len(reply.suggestions) = 1 /\ reply.expectAnswer

(* ------------------------------- C28 ----------------------------------- *)
(* C28: an adapter parses, verifies or renders for a request only if its   *)
(* isSupported returned true for that request's body.                      *)
C28_OnlySupportingAdapterUsed ==
    \A r \in Requests : \A i \in DOMAIN trace[r] :
        trace[r][i].call \in {"parse", "verify", "render"}
            => isSupported(trace[r][i].platform, body[r])

(* ------------------------------- C29 ----------------------------------- *)
(* The content of a voice markup: the markup without its root envelopes.   *)
RECURSIVE content(_)
content(ssml) ==
    IF envelopes(ssml) > 0 THEN content(SubSeq(ssml, 2, Len(ssml) - 1)) ELSE ssml
(* The templates of the key: those stored for it, or the key itself taken  *)
(* as a literal template.                                                  *)
TemplatesOfKey == IF KeyKnown THEN Templates ELSE {lastCall.arg.s}
(* The arguments of the call as voice markup: a nested Message gives its   *)
(* markup without its own root envelope.                                   *)
VoiceArgs == [i \in DOMAIN lastCall.args |->
                 IF lastCall.args[i].kind = "Message"
                 THEN Str(stripSpeak(lastCall.args[i].ssml))
                 ELSE lastCall.args[i]]

(* C29: createMessage called with at least one argument that is a Message  *)
(* returns a Message whose display text is the key's template with the     *)
(* arguments replaced in order by their display texts, and whose voice     *)
(* markup holds that same template with each nested Message replaced by    *)
(* its voice markup without the nested root envelope.                      *)
C29_NestedMessageComposition ==
    (lastCall.op = "createMessage" /\ HasMessageArg)
        => /\ lastCall.value.kind = "Message"
           /\ \E template \in TemplatesOfKey :
                 /\ lastCall.value.displayText = format(template, TextArgs)
                 /\ content(lastCall.value.ssml) = format(template, VoiceArgs)

(* ------------------------------- C30 ----------------------------------- *)
(* C30: the two replies addReply appends for a Message render the content  *)
(* of the Message as it is: the text reply its display text and the voice  *)
(* reply its voice markup, with no lookup in the table and no placeholder  *)
(* replaced, whatever the display text is.                                 *)
C30_MessageRenderedVerbatim ==
    (lastCall.op = "addReply" /\ lastCall.arg.kind = "Message")
        => /\ Len(Appended) = 2
           /\ Appended[1].render = Str(lastCall.arg.displayText)
           /\ Appended[2].render = Str(lastCall.arg.ssml)

(* ------------------------------- C31 ----------------------------------- *)
(* The matching adapters of request r whose verification has succeeded. *)
Verified(r) == {p \in Matching(r) : VerificationSucceeded(r, p)}

(* C31: when several adapters match the body of a request, the payload     *)
(* delivered for it is rendered by the last matching adapter whose         *)
(* verification succeeded, never by an adapter whose verification returned *)
(* false or has not succeeded.                                             *)
C31_LastVerifiedAdapterRenders ==
    \A r \in Requests : \A i \in DOMAIN trace[r] :
        (Cardinality(Matching(r)) >= 2 /\ trace[r][i].call = "render")
            => /\ trace[r][i].platform \in Verified(r)
               /\ \A p \in Verified(r) : p <= trace[r][i].platform

(* ------------------------------- C32 ----------------------------------- *)
(* C32: setExpectAnswer(b) changes only expectAnswer, to b, and            *)
(* setRetentionMessage(m) changes only retentionMessage, to m; no other    *)
(* call changes either field, so each field holds the value of the last    *)
(* call that set it, and expectAnswer is false while it has not been set.  *)
C32_SettersChangeOnlyTheirField ==
    /\ reply.expectAnswer = FALSE
    /\ [][ /\ lastCall'.op = "setExpectAnswer"
                => reply' = [reply EXCEPT !.expectAnswer = lastCall'.arg.b]
           /\ lastCall'.op = "setRetentionMessage"
                => reply' = [reply EXCEPT !.retentionMessage = lastCall'.arg.s]
           /\ lastCall'.op \notin {"setExpectAnswer", "setRetentionMessage"}
                => /\ reply'.expectAnswer = reply.expectAnswer
                   /\ reply'.retentionMessage = reply.retentionMessage ]_vars

(* Both setters have been called on an Output that holds a reply and a     *)
(* suggestion: the flag is set and the message is the one set last.        *)
C32_Witness ==
    /\ lastCall.op = "setRetentionMessage"
    /\ lastCall.arg.s = "Hello?"
    /\ reply.retentionMessage = "Hello?"
    /\ reply.expectAnswer = TRUE
    /\ Len(reply.replies) = 1
    /\ Len(reply.suggestions) = 1

(* ------------------------------- C33 ----------------------------------- *)
(* C33: no sequence of handle calls changes what the dispatcher was        *)
(* configured with (its adapters, trackers, intent handlers and            *)
(* translation table), and every Input the dispatch hands on, to the       *)
(* trackers and to createReply, is the Input as the adapter's parser       *)
(* returned it.                                                            *)
C33_ConfigurationAndInputUntouched ==
    /\ [](\A r \in Requests : \A i \in DOMAIN trace[r] :
            trace[r][i].call \in {"trackInput", "createReply"}
                => \E p \in Matching(r) : trace[r][i].arg = InputOf(r, p))
    /\ [][UNCHANGED <<verifyImpl, trackerMode, intentHandlers, translations>>]_vars

(* Every request has been dispatched to the end, and the trackers and      *)
(* createReply have received an Input.                                     *)
C33_Witness ==
    /\ \A r \in Requests : pc[r] = "completed"
    /\ \E r \in Requests :
          /\ Calls(r, "trackInput") # <<>>
          /\ Calls(r, "createReply") # <<>>
          /\ Calls(r, "trackOutput") # <<>>

(* ------------------------------- C34 ----------------------------------- *)
(* What a voice markup says: the markup without any envelope tag. *)
spoken(ssml) == SelectSeq(ssml, LAMBDA token : token \notin {"<speak>", "</speak>"})
(* The arguments of the call as they are said. *)
SpokenArgs == [i \in DOMAIN lastCall.args |->
                  IF lastCall.args[i].kind = "Message"
                  THEN Str(spoken(lastCall.args[i].ssml))
                  ELSE lastCall.args[i]]

(* C34: for a key stored as a list of variants, the display text and the   *)
(* voice markup of a Message that getMessage or createMessage produces     *)
(* for the key are built from one and the same variant of the list, also   *)
(* when an argument is a Message.                                          *)
C34_BothFormsFromOneVariant ==
    ( /\ lastCall.op \in {"getMessage", "createMessage"}
      /\ KeyKnown /\ Stored.kind = "array"
      /\ lastCall.value.kind = "Message" )
    => \E i \in DOMAIN Stored.items :
          /\ lastCall.value.displayText = format(Stored.items[i].s, TextArgs)
          /\ spoken(lastCall.value.ssml) = format(Stored.items[i].s, SpokenArgs)

(* ------------------------------- C35 ----------------------------------- *)
(* C35: no tracker receives trackInput with the Input of an adapter whose  *)
(* verification of the request fails, whether verify returns false at once *)
(* or returns a promise that resolves to false.                            *)
C35_NoTrackInputForFailedVerification ==
    \A r \in Requests : \A i \in DOMAIN trace[r] :
        trace[r][i].call = "trackInput"
            => verifyImpl[trace[r][i].arg.platform] \notin {"false", "pfalse"}

(* ------------------------------- C36 ----------------------------------- *)
(* Adapter p's verification promise for request r has rejected, and the    *)
(* reply composed for p's Input has thrown or its promise has rejected.    *)
VerificationRejected(r, p) ==
    /\ p \in Matching(r)
    /\ verifyImpl[p] = "preject" /\ branch[r][p].state = "joined"
CompositionFailed(r, p) ==
    /\ p \in Matching(r)
    /\ \/ replyImpl = "throw" /\ branch[r][p].state = "thrown"
             /\ \E i \in DOMAIN trace[r] :
                   trace[r][i].call = "createReply" /\ trace[r][i].arg = InputOf(r, p)
       \/ replyImpl = "preject" /\ branch[r][p].state = "joined"
(* The errors these failures carry. *)
FailuresOf(r, p) ==
    (IF VerificationRejected(r, p) THEN {"verifyError"} ELSE {})
        \cup (IF CompositionFailed(r, p) THEN {"replyError"} ELSE {})

(* C36: once the verification promise of a request has rejected, or the    *)
(* composition of its reply has thrown or its promise has rejected,        *)
(* handle's promise is rejected with that same error, no adapter's render  *)
(* is called for the request and no tracker receives trackOutput for it.   *)
C36_FailureRejectsWithSameError ==
    \A r \in Requests : \A p \in Platforms :
        FailuresOf(r, p) # {}
            => /\ promise[r].state = "rejected"
               /\ promise[r].value \in FailuresOf(r, p)
               /\ Calls(r, "render") = <<>>
               /\ Calls(r, "trackOutput") = <<>>

(* ------------------------------- C37 ----------------------------------- *)
(* C37: on every path of one handle call, whether its promise is resolved  *)
(* or rejected, with any number of matching adapters, and with render or a *)
(* tracker throwing inside the completion handler, response.end is called  *)
(* at most once.                                                           *)
C37_EndAtMostOnce ==
    \A r \in Requests : Len(Calls(r, "end")) <= 1

(* A completed request that several adapters matched and whose render      *)
(* threw inside the completion handler: the error payload is the only      *)
(* delivery.                                                               *)
C37_Witness ==
    \E r \in Requests :
        /\ pc[r] = "completed" /\ Cardinality(Matching(r)) >= 2
        /\ RenderFailed(r)
        /\ Calls(r, "end") = catchHandler("renderError")

(* ------------------------------- C38 ----------------------------------- *)
(* The positions of the generic text replies of an Output, and the message *)
(* the completion handler leaves in it: the render of the last of them, or *)
(* the message it had.                                                     *)
GenericText(output) ==
    {i \in DOMAIN output.replies :
        output.replies[i].platform = "*" /\ output.replies[i].type = "text"}
MessageOf(output) ==
    IF GenericText(output) = {} THEN output.message
    ELSE output.replies[CHOOSE i \in GenericText(output) :
                           \A j \in GenericText(output) : j <= i].render

(* C38: once the completion handler of a resolved promise has run, the     *)
(* Output is the composed one with its message set to the render of its    *)
(* last generic text reply, or left as it was when it has none; every      *)
(* trackOutput call and the render call have received the Output with      *)
(* that message already in it.                                             *)
C38_MessageSetBeforeTrackersAndRender ==
    \A r \in Requests :
        (promise[r].state = "resolved" /\ pc[r] = "completed") =>
            LET composed == ComposedOutput(r, promise[r].by)
                delivered == [composed EXCEPT !.message = MessageOf(composed)]
            IN /\ promise[r].value = delivered
               /\ \A i \in DOMAIN trace[r] :
                     trace[r][i].call \in {"trackOutput", "render"}
                         => trace[r][i].arg = delivered

(* A dispatch whose Output has two generic text replies has completed:     *)
(* the trackers and the adapter received the render of the second one.     *)
C38_Witness ==
    \E r \in Requests :
        /\ promise[r].state = "resolved" /\ pc[r] = "completed"
        /\ Cardinality(GenericText(ComposedOutput(r, promise[r].by))) = 2
        /\ promise[r].value.message = "Bye"
        /\ Len(Calls(r, "trackOutput")) = NumTrackers
        /\ \A i \in DOMAIN Calls(r, "trackOutput") :
              Calls(r, "trackOutput")[i].arg.message = "Bye"
        /\ Len(Calls(r, "render")) = 1
        /\ Calls(r, "render")[1].arg.message = "Bye"
====
